---------------------------- MODULE Spec2Model ----------------------------
(***************************************************************************)
(* A model of the Sway chatbot repository:                                 *)
(*   - src/content_generate_api.py: the response normalizer                *)
(*     (clean_response), the request validator (validate_request) and the  *)
(*     POST /SwaySyllabusGenerator handler (generate_syllabus with         *)
(*     process_item);                                                      *)
(*   - src/main.py, src/utils.py: the Streamlit chat session               *)
(*     (StudentHelplineApp.run, create_agent, generate_response).          *)
(*                                                                         *)
(* A text is a sequence of tokens.  A token is one character, or one of    *)
(* three fixed multi-character strings taken as a unit: the two markers    *)
(* "<startJson>" and "</endJson>", and DEEP, which stands for 100000 '['   *)
(* followed by 100000 ']' (an array nested deeper than the interpreter's   *)
(* recursion limit).  No other token of the alphabet is a character of     *)
(* these strings, so no marker can be formed or broken by the operations   *)
(* modelled here.                                                          *)
(***************************************************************************)
EXTENDS Integers, Sequences, FiniteSets, TLC

VARIABLES
    \* ---- clean_response (one call) ----
    response,       \* the argument of clean_response
    cpc,            \* "call" before the call, "done" after it
    path,           \* the branch of the if at line 55 the call took
    json_str,       \* the local json_str handed to json.loads (<<>> if none)
    cleaned,        \* what the call produced: a return value or an exception
    \* ---- POST /SwaySyllabusGenerator (one request) ----
    data,           \* request.get_json(): the parsed body, or that it raised
    validation_errors,  \* the local validation_errors (<<>> until it is set)
    pc,             \* "request", "loop", "responded"
    idx,            \* number of items of data the loop has processed
    responses,      \* the local list responses
    llm_calls,      \* the subjects model.invoke was called with, in order
    http,           \* the response sent: [status, body]
    \* ---- the chat session ----
    messages,           \* st.session_state.messages
    agent_executor,     \* st.session_state.agent_executor
    uploaded_pdf_name,  \* st.session_state.uploaded_pdf_name
    uploaded_pdf,       \* the file_uploader widget's value in the last run
    displayed,          \* the messages the last run rendered
    run_error,          \* the last run ended in run()'s except branch
    rerun,              \* st.rerun() was called and the rerun has not run yet
    turn,               \* the last run's chat turn, None if it had none
    run_pc,             \* "idle" between script runs; "writing" while a run
                        \* is inside write_bytes (line 74), the file opened;
                        \* "saved" after line 44 and before line 45
    written,            \* the blocks the write of line 74 has written so far
    loaded,             \* the blocks the loader of line 45 has read so far
    chat_input,         \* the local prompt of the run in progress
    pdfs,               \* the directory pdfs/ of the working directory, which
                        \* all sessions of the server share: name -> file
    other               \* another session's write_bytes in progress, or None

cleanVars == <<response, cpc, path, json_str, cleaned>>
apiVars == <<data, validation_errors, pc, idx, responses, llm_calls, http>>
chatVars == <<messages, agent_executor, uploaded_pdf_name, uploaded_pdf,
              displayed, run_error, rerun, turn, run_pc, written, loaded,
              chat_input, pdfs, other>>
vars == <<cleanVars, apiVars, chatVars>>

None == [t |-> "None"]

----------------------------------------------------------------------------
(* Texts *)

START == "<startJson>"
END == "</endJson>"
DEEP == "[[..100000..]]"
QUOTE == "\""
BACKSLASH == "\\"
NEWLINE == "\n"
SPACE == " "

\* str.strip() and the json module's WHITESPACE, on this alphabet
Whitespace == {SPACE, NEWLINE}

\* sub in s
Contains(s, tok) == \E i \in 1..Len(s) : s[i] = tok

\* the index of the first tok in s at or after from, Len(s)+1 if none
RECURSIVE Find(_, _, _)
Find(s, tok, from) ==
    IF from > Len(s) THEN Len(s) + 1
    ELSE IF s[from] = tok THEN from
    ELSE Find(s, tok, from + 1)

\* s[a-1:b-1] of Python, 1-based and inclusive here
Slice(s, a, b) == IF a > b THEN <<>> ELSE SubSeq(s, a, b)

\* s.split(sep): the pieces between the occurrences of sep
RECURSIVE Split(_, _)
Split(s, sep) ==
    LET i == Find(s, sep, 1)
    IN IF i > Len(s) THEN <<s>>
       ELSE <<Slice(s, 1, i - 1)>> \o Split(Slice(s, i + 1, Len(s)), sep)

RECURSIVE LStrip(_)
LStrip(s) ==
    IF s # <<>> /\ Head(s) \in Whitespace THEN LStrip(Tail(s)) ELSE s

RECURSIVE RStrip(_)
RStrip(s) ==
    IF s # <<>> /\ s[Len(s)] \in Whitespace
    THEN RStrip(Slice(s, 1, Len(s) - 1)) ELSE s

\* s.strip()
Strip(s) == RStrip(LStrip(s))

\* s.startswith(tok)
StartsWith(s, tok) == s # <<>> /\ s[1] = tok

\* s.replace(tok, by), by a text
RECURSIVE Replace(_, _, _)
Replace(s, tok, by) ==
    IF s = <<>> THEN <<>>
    ELSE (IF Head(s) = tok THEN by ELSE <<Head(s)>>) \o Replace(Tail(s), tok, by)

\* re.search(r'({[^}]*})', s): the leftmost match, <<>> if there is none.
\* The match starts at the first "{" that has a "}" after it and ends at
\* the first "}" after that "{".
re_search(s) ==
    LET open == Find(s, "{", 1)
        close == Find(s, "}", open + 1)
    IN IF open > Len(s) \/ close > Len(s) THEN <<>>
       ELSE Slice(s, open, close)

----------------------------------------------------------------------------
(* json.loads, on this alphabet.  The alphabet holds no digit and no       *)
(* letter of true, false, null, NaN or Infinity, and no '[' or ']' except  *)
(* inside DEEP, so a value is a string, an object or DEEP.                 *)

JsonOk(val, end) == [exc |-> "none", val |-> val, end |-> end]
JsonErr(kind) == [exc |-> kind, val |-> None, end |-> 0]

\* WHITESPACE.match(s, i).end(): the first index at or after i that holds
\* no whitespace
RECURSIVE SkipWs(_, _)
SkipWs(s, i) ==
    IF i <= Len(s) /\ s[i] \in Whitespace THEN SkipWs(s, i + 1) ELSE i

\* the escapes json accepts after a backslash, among the alphabet's tokens
Escapes == {QUOTE, BACKSLASH}

\* json.decoder.scanstring(s, i, strict=True), i the index after the
\* opening quote; acc is the content read so far
RECURSIVE scanstring(_, _, _)
scanstring(s, i, acc) ==
    IF i > Len(s) THEN JsonErr("JSONDecodeError")
    ELSE IF s[i] = QUOTE THEN JsonOk([t |-> "str", v |-> acc], i + 1)
    ELSE IF s[i] = BACKSLASH THEN
        IF i + 1 <= Len(s) /\ s[i + 1] \in Escapes
        THEN scanstring(s, i + 2, Append(acc, s[i + 1]))
        ELSE JsonErr("JSONDecodeError")
    ELSE IF s[i] = NEWLINE THEN JsonErr("JSONDecodeError")
    ELSE scanstring(s, i + 1, Append(acc, s[i]))

\* dict(pairs): a repeated key keeps its first place and takes the last value
PutPair(pairs, key, val) ==
    IF \E k \in 1..Len(pairs) : pairs[k][1] = key
    THEN [k \in 1..Len(pairs) |->
            IF pairs[k][1] = key THEN <<key, val>> ELSE pairs[k]]
    ELSE Append(pairs, <<key, val>>)

RECURSIVE scan_once(_, _)
RECURSIVE ObjectMembers(_, _, _)

\* the while loop of json.decoder.JSONObject; i is the index after the
\* opening quote of the next key
ObjectMembers(s, i, pairs) ==
    LET key == scanstring(s, i, <<>>)
    IN IF key.exc # "none" THEN key
       ELSE
       LET colon == SkipWs(s, key.end)
       IN IF colon > Len(s) \/ s[colon] # ":" THEN JsonErr("JSONDecodeError")
          ELSE
          LET value == scan_once(s, SkipWs(s, colon + 1))
          IN IF value.exc # "none" THEN value
             ELSE
             LET next == SkipWs(s, value.end)
                 now == PutPair(pairs, key.val.v, value.val)
             IN IF next > Len(s) THEN JsonErr("JSONDecodeError")
                ELSE IF s[next] = "}"
                     THEN JsonOk([t |-> "obj", v |-> now], next + 1)
                ELSE IF s[next] # "," THEN JsonErr("JSONDecodeError")
                ELSE
                LET q == SkipWs(s, next + 1)
                IN IF q > Len(s) \/ s[q] # QUOTE
                   THEN JsonErr("JSONDecodeError")
                   ELSE ObjectMembers(s, q + 1, now)

\* json.decoder.JSONObject((s, i)), i the index after the "{"
JSONObject(s, i) ==
    LET j == SkipWs(s, i)
    IN IF j > Len(s) THEN JsonErr("JSONDecodeError")
       ELSE IF s[j] = "}" THEN JsonOk([t |-> "obj", v |-> <<>>], j + 1)
       ELSE IF s[j] # QUOTE THEN JsonErr("JSONDecodeError")
       ELSE ObjectMembers(s, j + 1, <<>>)

\* json.scanner's scan_once(s, i): the value that starts at i.  The scanner
\* recurses once per nesting level, so DEEP exhausts the recursion limit
\* before its first ']' is read.
scan_once(s, i) ==
    IF i > Len(s) THEN JsonErr("JSONDecodeError")
    ELSE IF s[i] = QUOTE THEN scanstring(s, i + 1, <<>>)
    ELSE IF s[i] = "{" THEN JSONObject(s, i + 1)
    ELSE IF s[i] = DEEP THEN JsonErr("RecursionError")
    ELSE JsonErr("JSONDecodeError")

\* json.loads(s): one value, whitespace around it, nothing after it
json_loads(s) ==
    LET r == scan_once(s, SkipWs(s, 1))
    IN IF r.exc # "none" THEN r
       ELSE IF SkipWs(s, r.end) # Len(s) + 1 THEN JsonErr("JSONDecodeError")
       ELSE r

----------------------------------------------------------------------------
(* clean_response *)

Returned(from, val) == [kind |-> "return", from |-> from, val |-> val]
Raised(exc) == [kind |-> "raise", from |-> "try", val |-> [exception |-> exc]]

\* the exceptions the except clause at line 78 names
CaughtByCleanResponse == {"JSONDecodeError", "IndexError"}

\* lines 56-59: the text after the first start marker, up to the next
\* marker of either kind, stripped, and wrapped in braces unless it starts
\* with one.  list[1] on a list of one piece raises IndexError.
SentinelJsonStr(text) ==
    LET pieces == Split(text, START)
    IN IF Len(pieces) < 2 THEN [exc |-> "IndexError", str |-> <<>>]
       ELSE LET inner == Strip(Split(pieces[2], END)[1])
            IN [exc |-> "none",
                str |-> IF StartsWith(inner, "{") THEN inner
                        ELSE <<"{">> \o inner \o <<"}">>]

\* lines 63-66: newlines to spaces, backslashes removed, then the leftmost
\* match of {[^}]*}; <<>> when json_match is None
FallbackJsonStr(text) ==
    LET cleaned_text == Replace(Replace(text, NEWLINE, <<SPACE>>), BACKSLASH, <<>>)
    IN re_search(cleaned_text)

\* as TakesSentinelPath, but asking for both markers
TakesSentinelPathOnPair(text) == Contains(text, START) /\ Contains(text, END)

\* line 55: the branch taken
TakesSentinelPath(text) == Contains(text, START)

\* lines 69-72
NoJsonFound(text) ==
    [error |-> "Could not extract JSON from response", raw_response |-> text]

\* lines 80-84; details is str(e) of the exception caught
ParseFailure(text, exc) ==
    [error |-> "Failed to parse JSON response",
     details |-> <<"str", exc>>,
     raw_response |-> text]

\* lines 74-84: json.loads(json_str) inside the try, and the except clause
LoadOrFail(text, found) ==
    IF found.exc # "none"
    THEN IF found.exc \in CaughtByCleanResponse
         THEN Returned("except", ParseFailure(text, found.exc))
         ELSE Raised(found.exc)
    ELSE LET json_obj == json_loads(found.str)
         IN IF json_obj.exc = "none" THEN Returned("json.loads", json_obj.val)
            ELSE IF json_obj.exc \in CaughtByCleanResponse
                 THEN Returned("except", ParseFailure(text, json_obj.exc))
            ELSE Raised(json_obj.exc)

\* clean_response(response): the branch taken, json_str and the outcome
clean_response(text) ==
    IF TakesSentinelPath(text)
    THEN LET found == SentinelJsonStr(text)
         IN [path |-> "sentinel", json_str |-> found.str,
             out |-> LoadOrFail(text, found)]
    ELSE LET json_str_ == FallbackJsonStr(text)
         IN IF json_str_ = <<>>
            THEN [path |-> "fallback", json_str |-> <<>>,
                  out |-> Returned("no match", NoJsonFound(text))]
            ELSE [path |-> "fallback", json_str |-> json_str_,
                  out |-> LoadOrFail(text, [exc |-> "none", str |-> json_str_])]

\* The texts a call is made with: up to MaxParts parts, each one token of
\* the alphabet or a fragment of a JSON object.
MaxParts == 3

KeyColon == <<QUOTE, "a", QUOTE, ":">>
StringValue == <<QUOTE, "a", QUOTE>>
Member == KeyColon \o StringValue
Object == <<"{">> \o Member \o <<"}">>

Parts ==
    {<<START>>, <<END>>, <<"{">>, <<"}">>, <<SPACE>>, <<NEWLINE>>,
     <<BACKSLASH>>, <<"a">>, <<QUOTE>>, <<",">>, <<DEEP>>,
     KeyColon, StringValue, Member, Object}

RECURSIVE Concat(_)
Concat(ps) == IF ps = <<>> THEN <<>> ELSE Head(ps) \o Concat(Tail(ps))

Texts == UNION {{Concat(ps) : ps \in [1..n -> Parts]} : n \in 0..MaxParts}

CleanResponse ==
    /\ cpc = "call"
    /\ LET r == clean_response(response)
       IN /\ path' = r.path
          /\ json_str' = r.json_str
          /\ cleaned' = r.out
    /\ cpc' = "done"
    /\ UNCHANGED <<response, apiVars, chatVars>>

----------------------------------------------------------------------------
(* Python values of a request body.  A value is [t |-> type, v |-> ...]:   *)
(* a str holds a text, a list a sequence of values, a dict a sequence of   *)
(* <<key, value>> pairs in insertion order; None has no v.                 *)

PyStr(text) == [t |-> "str", v |-> text]
PyInt(n) == [t |-> "int", v |-> n]
PyList(items) == [t |-> "list", v |-> items]
PyDict(pairs) == [t |-> "dict", v |-> pairs]

\* key in d
DictHas(d, key) == \E k \in 1..Len(d.v) : d.v[k][1] = key

\* d.get(key) and d[key], for a key that is there
DictGet(d, key) == d.v[CHOOSE k \in 1..Len(d.v) : d.v[k][1] = key][2]

\* the f-strings of validate_request: the text before the index, the
\* index, the text after it
ItemMustBeObject(i) == <<"Item at index ", i, " must be an object">>
MissingSubject(i) == <<"Missing 'subject' field in item at index ", i, "">>
SubjectMustBeString(i) == <<"'subject' must be a string in item at index ", i, "">>
SubjectEmpty(i) == <<"'subject' cannot be empty in item at index ", i, "">>
MustBeList == <<"Request body must be a list of objects">>

\* as ItemErrors, without the last elif (the blank subject)
ItemErrorsNoBlankCheck(item, i) ==
    IF item.t # "dict" THEN <<ItemMustBeObject(i)>>
    ELSE IF ~DictHas(item, "subject") THEN <<MissingSubject(i)>>
    ELSE IF DictGet(item, "subject").t # "str" THEN <<SubjectMustBeString(i)>>
    ELSE <<>>

\* lines 94-101: the errors of the item at Python index i (none or one)
ItemErrors(item, i) ==
    IF item.t # "dict" THEN <<ItemMustBeObject(i)>>
    ELSE IF ~DictHas(item, "subject") THEN <<MissingSubject(i)>>
    ELSE IF DictGet(item, "subject").t # "str" THEN <<SubjectMustBeString(i)>>
    ELSE IF Strip(DictGet(item, "subject").v) = <<>> THEN <<SubjectEmpty(i)>>
    ELSE <<>>

\* as ItemsErrors, but returning at the first defective item
RECURSIVE ItemsErrorsFirstOnly(_, _)
ItemsErrorsFirstOnly(items, k) ==
    IF k > Len(items) THEN <<>>
    ELSE IF ItemErrors(items[k], k - 1) # <<>> THEN ItemErrors(items[k], k - 1)
    ELSE ItemsErrorsFirstOnly(items, k + 1)

\* lines 93-101: the loop over enumerate(data), from the k-th item on
RECURSIVE ItemsErrors(_, _)
ItemsErrors(items, k) ==
    IF k > Len(items) THEN <<>>
    ELSE ItemErrors(items[k], k - 1) \o ItemsErrors(items, k + 1)

\* validate_request(data)
validate_request(body) ==
    IF body.t # "list" THEN <<MustBeList>>
    ELSE ItemsErrors(body.v, 1)

\* What model.invoke does for one item: it returns a message whose
\* content is a text, or it raises an exception whose str() is msg.
LLMContents ==
    {<<"{\"subject\": \"a\", \"syllabus\": [\"a\", \"a a\"]}">>,
     Object,
     <<"a", SPACE, "a">>}
LLMFailures == {<<"Connection error.">>, <<"Rate limit reached">>}
LLMOutcomes ==
    {[kind |-> "content", text |-> c] : c \in LLMContents}
        \cup {[kind |-> "raise", text |-> m] : m \in LLMFailures}

\* as process_item, without its try/except: the exception leaves it
process_item_uncaught(subject, outcome) ==
    IF outcome.kind = "content"
    THEN [exc |-> FALSE, val |-> PyStr(outcome.text)]
    ELSE [exc |-> TRUE, val |-> None]

\* process_item(subject), given what model.invoke did: the message's
\* content as it is (line 118), or the error dict of lines 122-125; exc
\* says whether an exception leaves process_item
process_item(subject, outcome) ==
    IF outcome.kind = "content"
    THEN [exc |-> FALSE, val |-> PyStr(outcome.text)]
    ELSE [exc |-> FALSE,
          val |-> PyDict(<< <<"error", PyStr(<<"An unexpected error occurred during processing">>)>>,
                            <<"details", PyStr(outcome.text)>> >>)]

\* as AppendResponse, but inserting at the front
InsertResponseFirst(rs, r) == <<r>> \o rs

\* line 144: responses.append(response)
AppendResponse(rs, r) == Append(rs, r)

\* lines 150-153: the body of the 500 response
InternalServerError ==
    PyDict(<< <<"error", PyStr(<<"Internal server error">>)>>,
              <<"details", PyStr(<<"str(e)">>)>> >>)

\* The bodies a request is made with
MaxItems == 3

Items ==
    {None, PyStr(<<"a">>), PyInt(1),
     PyDict(<< <<"foo", PyStr(<<"a">>)>> >>),
     PyDict(<< <<"subject", PyInt(1)>> >>),
     PyDict(<< <<"subject", None>> >>),
     PyDict(<< <<"subject", PyStr(<<>>)>> >>),
     PyDict(<< <<"subject", PyStr(<<SPACE, NEWLINE>>)>> >>),
     PyDict(<< <<"subject", PyStr(<<"a">>)>> >>),
     PyDict(<< <<"subject", PyStr(<<SPACE, "a", "a", NEWLINE>>)>>, <<"foo", PyInt(1)>> >>)}

GetJsonRaised == [t |-> "raise"]

Bodies ==
    {GetJsonRaised, None, PyStr(<<"a">>), PyDict(<< <<"subject", PyStr(<<"a">>)>> >>)}
        \cup {PyList(items) : items \in UNION {[1..n -> Items] : n \in 0..MaxItems}}

NoResponse == [status |-> 0, body |-> None]

\* generate_syllabus, lines 130-138 and 148-153: read the body, validate it
ReadAndValidate ==
    /\ pc = "request"
    /\ IF data = GetJsonRaised
       THEN /\ http' = [status |-> 500, body |-> InternalServerError]
            /\ pc' = "responded"
            /\ UNCHANGED validation_errors
       ELSE IF data = None
       THEN /\ http' = [status |-> 400,
                        body |-> PyDict(<< <<"error", PyStr(<<"Invalid JSON in request body">>)>> >>)]
            /\ pc' = "responded"
            /\ UNCHANGED validation_errors
       ELSE /\ validation_errors' = validate_request(data)
            /\ IF validation_errors' # <<>>
               THEN /\ http' = [status |-> 400,
                                body |-> PyDict(<< <<"errors", PyList(validation_errors')>> >>)]
                    /\ pc' = "responded"
               ELSE /\ http' = http
                    /\ pc' = "loop"
    /\ UNCHANGED <<data, idx, responses, llm_calls, cleanVars, chatVars>>

\* lines 142-144: one iteration of the loop over data
ProcessItem ==
    /\ pc = "loop"
    /\ idx < Len(data.v)
    /\ \E outcome \in LLMOutcomes :
         LET subject == DictGet(data.v[idx + 1], "subject")
             response_ == process_item(subject, outcome)
         IN /\ llm_calls' = Append(llm_calls, [subject |-> subject, outcome |-> outcome])
            /\ IF response_.exc
               THEN \* lines 148-153: the handler's own except branch
                    /\ http' = [status |-> 500, body |-> InternalServerError]
                    /\ pc' = "responded"
                    /\ UNCHANGED <<responses, idx>>
               ELSE /\ responses' = AppendResponse(responses, response_.val)
                    /\ idx' = idx + 1
                    /\ UNCHANGED <<pc, http>>
    /\ UNCHANGED <<data, validation_errors, cleanVars, chatVars>>

\* line 146: the loop is over
Respond ==
    /\ pc = "loop"
    /\ idx = Len(data.v)
    /\ http' = [status |-> 200, body |-> PyList(responses)]
    /\ pc' = "responded"
    /\ UNCHANGED <<data, validation_errors, idx, responses, llm_calls, cleanVars, chatVars>>

----------------------------------------------------------------------------
(* The chat session.  A script run is one execution of                     *)
(* StudentHelplineApp().run() on the session state, with the widgets'      *)
(* values as its inputs.  Streamlit runs each session's script in a thread *)
(* of its own, and all sessions write their uploads into the one directory *)
(* pdfs/.  Path.write_bytes (line 74) opens the file, which empties it,    *)
(* and then writes the bytes; neither the two together nor the write is    *)
(* atomic, and neither is the loader's read of the file (line 45), so a    *)
(* run is several steps where it writes a file and reads it back           *)
(* (create_agent, lines 44 and 45), and the steps of another session's     *)
(* save can fall between them.                                             *)

\* An uploaded file has a name and a document (its bytes)
PdfNames == {"a.pdf", "b.pdf"}
Documents == {"doc1", "doc2"}
UploadedFiles == [name : PdfNames, document : Documents]

\* The bytes of a document, as the blocks a write puts into the file one
\* after the other; each block is the text of one chunk of the document.
\* Documents differ in length: doc1 has two blocks, doc2 one
Blocks(document) ==
    IF document = "doc1" THEN <<<<document, "chunk1">>, <<document, "chunk2">>>>
    ELSE <<<<document, "chunk1">>>>

\* the zero bytes that fill a file up to the offset of a write past its end
Hole == <<"", "zeros">>

\* A file of pdfs/: whether it exists, and its bytes as a sequence of blocks
NoFile == [exists |-> FALSE, bytes |-> <<>>]
EmptyDir == [n \in PdfNames |-> NoFile]

\* line 74, open(mode="wb"): the file is created or emptied
open_wb(dir, name) == [dir EXCEPT ![name] = [exists |-> TRUE, bytes |-> <<>>]]

\* line 74, write: one block goes into the file at the writer's offset
\* (the number of blocks it has written), over what is there
write_block(dir, name, offset, block) ==
    LET old == dir[name].bytes
        new == IF offset < Len(old)
               THEN [old EXCEPT ![offset + 1] = block]
               ELSE old \o [k \in 1..(offset - Len(old)) |-> Hole] \o <<block>>
    IN [dir EXCEPT ![name] = [exists |-> TRUE, bytes |-> new]]

\* save_uploaded_pdf(uploaded_pdf) when no other write touches the file
\* meanwhile and nothing raises: the file holds the upload
RECURSIVE write_blocks(_, _, _, _)
write_blocks(dir, name, blocks, n) ==
    IF n = 0 THEN dir
    ELSE write_block(write_blocks(dir, name, blocks, n - 1), name, n - 1, blocks[n])
save_uploaded_pdf(dir, pdf) ==
    write_blocks(open_wb(dir, pdf.name), pdf.name, Blocks(pdf.document),
                 Len(Blocks(pdf.document)))

\* utils.create_retriever_tool_agent(pdf_path): the chunks of the bytes
\* the loader has read from pdf_path, indexed; the tool retrieves from
\* these chunks only
Chunks(document) == {Blocks(document)[k] : k \in 1..Len(Blocks(document))}
Splits(bytes) == {bytes[k] : k \in 1..Len(bytes)} \ {Hole}
create_retriever_tool_agent(bytes) ==
    [name |-> "pdf_retriever", index |-> Splits(bytes)]

\* The loader and the vector store raise on bytes without any text: no
\* document can be read from them and no index built from no chunk
LoaderRaises(bytes) == Splits(bytes) = {}

\* create_agent(uploaded_pdf) from line 45 on, when nothing in it raises:
\* bytes is what the loader has read from pdfs/<name> (the save of line 44
\* and the read have been done before, see RunStart, WriteBytes and
\* ReadBytes); the retriever tool is built from these bytes, and the
\* executor holds the tool
create_agent(pdf, bytes) ==
    [t |-> "AgentExecutor",
     tools |-> IF pdf = None THEN <<>>
               ELSE <<create_retriever_tool_agent(bytes)>>]

\* main.py line 101: the number of messages the slice keeps
DisplayCount == 5

\* as LastMessages, with the slice messages[:5]
FirstMessages(msgs) ==
    SubSeq(msgs, 1, IF Len(msgs) > DisplayCount THEN DisplayCount ELSE Len(msgs))

\* main.py line 101: the slice messages[-5:]
LastMessages(msgs) ==
    SubSeq(msgs, IF Len(msgs) > DisplayCount THEN Len(msgs) - DisplayCount + 1 ELSE 1,
           Len(msgs))

Apology == "I apologize, but I encountered an error. Please try asking your question again."

\* What agent_executor.invoke({"input": prompt}) does: it returns a dict
\* with an "output", returns a dict without one, or raises
Answers == {"answer"}
InvokeFailures == {"GroqError: rate limit"}
Invocations ==
    {[kind |-> "output", text |-> a] : a \in Answers}
        \cup {[kind |-> "raise", text |-> m] : m \in InvokeFailures}
        \cup {[kind |-> "no output", text |-> "KeyError: 'output'"]}

\* as generate_response, but answering with str(e) as process_item does
generate_response_leaks(agent, invocation) ==
    IF agent = None THEN [exc |-> FALSE, val |-> "AttributeError"]
    ELSE [exc |-> FALSE, val |-> invocation.text]

\* generate_response(prompt): exc says whether an exception leaves it
generate_response(agent, invocation) ==
    IF agent = None THEN [exc |-> FALSE, val |-> Apology]
    ELSE IF invocation.kind = "output" THEN [exc |-> FALSE, val |-> invocation.text]
    ELSE [exc |-> FALSE, val |-> Apology]

\* lines 120-129 of run(): the chat turn, on the agent of this run
ChatTurn(msgs, agent, prompt, invocation) ==
    LET withUser == Append(msgs, [role |-> "user", content |-> prompt.v])
        answer == generate_response(agent, invocation)
    IN IF answer.exc
       THEN [messages |-> withUser, error |-> TRUE, rerun |-> FALSE]
       ELSE [messages |-> Append(withUser, [role |-> "assistant", content |-> answer.val]),
             error |-> FALSE, rerun |-> TRUE]

\* lines 112-117: whether this run builds an agent, given the upload
BuildsAgent(pdf, agent, names) ==
    \/ pdf = None /\ agent = None
    \/ pdf # None /\ pdf.name \notin names

\* line 117: the names recorded after the agent is built
RecordName(pdf, names) == IF pdf = None THEN names ELSE names \cup {pdf.name}

\* what st.chat_input returns when the user has typed: a non-empty str
Prompts == {[t |-> "str", v |-> "q1"]}
MaxTurns == 3

\* the chunks a turn can retrieve: none (the tool is not called), or the
\* chunks of a tool the agent holds.  The executor calls the tool before
\* the LLM call that ends the turn, so a turn whose invocation raises may
\* have retrieved as well
Retrievals(agent) ==
    {{}} \cup (IF agent = None THEN {}
               ELSE {agent.tools[k].index : k \in 1..Len(agent.tools)})

\* lines 131-133: an exception reached run()'s except branch
RunFails ==
    /\ run_error' = TRUE
    /\ rerun' = FALSE
    /\ turn' = None
    /\ UNCHANGED <<messages, agent_executor, uploaded_pdf_name>>

\* lines 119-129: the rest of the run once the agent conditions are done;
\* agent is st.session_state.agent_executor as they left it
Chat(agent, prompt) ==
    IF prompt = None
    THEN /\ turn' = None
         /\ run_error' = FALSE
         /\ rerun' = FALSE
         /\ UNCHANGED messages
    ELSE \E invocation \in Invocations :
         \E retrieved \in Retrievals(agent) :
            LET chat == ChatTurn(messages, agent, prompt, invocation)
            IN /\ messages' = chat.messages
               /\ run_error' = chat.error
               /\ rerun' = chat.rerun
               /\ turn' = [t |-> "turn", prompt |-> prompt.v,
                           invocation |-> invocation,
                           retrieved |-> retrieved,
                           before |-> Len(messages)]

\* A script run from its start: pdf is the file_uploader's value, prompt
\* the chat_input's, createFails whether create_agent raises before it has
\* opened the file if it is called.  A run that has to build an agent for
\* an upload goes as far as the open of line 74, any other run to its end
RunStart(pdf, prompt, createFails) ==
    /\ run_pc = "idle"
    /\ rerun => pdf = uploaded_pdf /\ prompt = None
    /\ prompt # None => Len(messages) < 2 * MaxTurns
    /\ displayed' = LastMessages(messages)
    /\ uploaded_pdf' = pdf
    /\ IF ~BuildsAgent(pdf, agent_executor, uploaded_pdf_name)
       THEN /\ Chat(agent_executor, prompt)
            /\ run_pc' = "idle" /\ chat_input' = None
            /\ UNCHANGED <<agent_executor, uploaded_pdf_name, pdfs>>
       ELSE IF createFails
       THEN \* mkdir or open raised or, without an upload, the rest of
            \* create_agent: run() logs it and shows an error
            /\ RunFails
            /\ run_pc' = "idle" /\ chat_input' = None
            /\ UNCHANGED pdfs
       ELSE IF pdf = None
       THEN \* line 113: an agent without tools, no file is touched
            /\ agent_executor' = create_agent(None, <<>>)
            /\ Chat(agent_executor', prompt)
            /\ run_pc' = "idle" /\ chat_input' = None
            /\ UNCHANGED <<uploaded_pdf_name, pdfs>>
       ELSE \* line 116, create_agent, save_uploaded_pdf as far as the open
            /\ pdfs' = open_wb(pdfs, pdf.name)
            /\ run_pc' = "writing" /\ chat_input' = prompt
            /\ turn' = None /\ run_error' = FALSE /\ rerun' = FALSE
            /\ UNCHANGED <<messages, agent_executor, uploaded_pdf_name>>
    /\ UNCHANGED <<written, loaded, other>>
    /\ UNCHANGED <<cleanVars, apiVars>>

\* line 74, the write of the run's upload, a block at a time; writeFails is
\* whether the write of the next block raises (the file system refuses it),
\* which leaves the file as it is and ends the run in its except branch
WriteBytes(writeFails) ==
    /\ run_pc = "writing"
    /\ IF writeFails
       THEN /\ RunFails
            /\ run_pc' = "idle" /\ written' = 0 /\ chat_input' = None
            /\ UNCHANGED pdfs
       ELSE LET blocks == Blocks(uploaded_pdf.document)
            IN /\ pdfs' = write_block(pdfs, uploaded_pdf.name, written,
                                      blocks[written + 1])
               /\ IF written + 1 = Len(blocks)
                  THEN run_pc' = "saved" /\ written' = 0
                  ELSE run_pc' = "writing" /\ written' = written + 1
               /\ UNCHANGED <<messages, agent_executor, uploaded_pdf_name,
                              run_error, rerun, turn, chat_input>>
    /\ UNCHANGED <<displayed, uploaded_pdf, loaded, other>>
    /\ UNCHANGED <<cleanVars, apiVars>>

\* line 45, utils line 12: the loader reads the file at pdfs/<name>, a
\* block at a time, up to what is the end of the file when it gets there
ReadBytes ==
    /\ run_pc = "saved"
    /\ Len(loaded) < Len(pdfs[uploaded_pdf.name].bytes)
    /\ loaded' = Append(loaded, pdfs[uploaded_pdf.name].bytes[Len(loaded) + 1])
    /\ UNCHANGED <<messages, agent_executor, uploaded_pdf_name, uploaded_pdf,
                   displayed, run_error, rerun, turn, run_pc, written,
                   chat_input, pdfs, other>>
    /\ UNCHANGED <<cleanVars, apiVars>>

\* The rest of a run once the loader has reached the end of the file: the
\* retriever tool is built from what it has read, then lines 117-129;
\* createFails is whether create_agent raises from line 45 on, which it
\* does on bytes without text
RunFinish(createFails) ==
    /\ run_pc = "saved"
    /\ Len(loaded) >= Len(pdfs[uploaded_pdf.name].bytes)
    /\ LoaderRaises(loaded) => createFails
    /\ run_pc' = "idle" /\ chat_input' = None /\ loaded' = <<>>
    /\ IF createFails
       THEN RunFails
       ELSE /\ agent_executor' = create_agent(uploaded_pdf, loaded)
            /\ uploaded_pdf_name' = RecordName(uploaded_pdf, uploaded_pdf_name)
            /\ Chat(agent_executor', chat_input)
    /\ UNCHANGED <<displayed, uploaded_pdf, pdfs, written, other>>
    /\ UNCHANGED <<cleanVars, apiVars>>

\* One step of this session's script thread
ScriptRun ==
    \/ \E pdf \in UploadedFiles \cup {None}, prompt \in Prompts \cup {None},
          createFails \in BOOLEAN :
           RunStart(pdf, prompt, createFails)
    \/ \E writeFails \in BOOLEAN : WriteBytes(writeFails)
    \/ ReadBytes
    \/ \E createFails \in BOOLEAN : RunFinish(createFails)

\* Another session's run reaches line 74 with its own upload: its
\* write_bytes opens a file of the same directory
OtherSessionOpens ==
    \E file \in UploadedFiles :
        /\ other = None
        /\ pdfs' = open_wb(pdfs, file.name)
        /\ other' = [t |-> "writer", file |-> file, written |-> 0]

\* and writes its upload, a block at a time, or fails to
OtherSessionWrites ==
    \E writeFails \in BOOLEAN :
        /\ other # None
        /\ IF writeFails
           THEN other' = None /\ UNCHANGED pdfs
           ELSE LET blocks == Blocks(other.file.document)
                IN /\ pdfs' = write_block(pdfs, other.file.name, other.written,
                                          blocks[other.written + 1])
                   /\ other' = IF other.written + 1 = Len(blocks) THEN None
                               ELSE [other EXCEPT !.written = @ + 1]

\* One step of another session's save_uploaded_pdf
OtherSessionSaves ==
    /\ OtherSessionOpens \/ OtherSessionWrites
    /\ UNCHANGED <<messages, agent_executor, uploaded_pdf_name, uploaded_pdf,
                   displayed, run_error, rerun, turn, run_pc, written,
                   loaded, chat_input>>
    /\ UNCHANGED <<cleanVars, apiVars>>

----------------------------------------------------------------------------
(* Specifications: one per program *)

CleanIdle == /\ response = <<>> /\ cpc = "idle" /\ path = "none"
             /\ json_str = <<>> /\ cleaned = None
ApiIdle == /\ data = None /\ validation_errors = <<>> /\ pc = "idle"
           /\ idx = 0 /\ responses = <<>>
           /\ llm_calls = <<>> /\ http = NoResponse
ChatIdle == /\ messages = <<>> /\ agent_executor = None
            /\ uploaded_pdf_name = {} /\ uploaded_pdf = None
            /\ displayed = <<>> /\ run_error = FALSE /\ rerun = FALSE
            /\ turn = None /\ run_pc = "idle" /\ written = 0 /\ loaded = <<>>
            /\ chat_input = None /\ pdfs = EmptyDir /\ other = None

\* clean_response, called once with any text
InitClean ==
    /\ response \in Texts
    /\ cpc = "call" /\ path = "none" /\ json_str = <<>> /\ cleaned = None
    /\ ApiIdle /\ ChatIdle
NextClean == CleanResponse
SpecClean == InitClean /\ [][NextClean]_vars

\* one POST /SwaySyllabusGenerator request with any body
Init ==
    /\ data \in Bodies
    /\ validation_errors = <<>>
    /\ pc = "request" /\ idx = 0 /\ responses = <<>> /\ llm_calls = <<>>
    /\ http = NoResponse
    /\ CleanIdle /\ ChatIdle
Next == ReadAndValidate \/ ProcessItem \/ Respond
Spec == Init /\ [][Next]_vars

\* one chat session: initialize_state, then script runs, on a server
\* where other sessions upload files too
InitChat == ChatIdle /\ CleanIdle /\ ApiIdle
NextChat == ScriptRun \/ OtherSessionSaves
SpecChat == InitChat /\ [][NextChat]_vars

----------------------------------------------------------------------------
(* Properties of POST /SwaySyllabusGenerator (specification Spec) *)

\* a request item as the spec's data model asks: an object whose 'subject'
\* is a string with a non-whitespace character
IsValidItem(item) ==
    /\ item.t = "dict"
    /\ DictHas(item, "subject")
    /\ DictGet(item, "subject").t = "str"
    /\ \E k \in 1..Len(DictGet(item, "subject").v) :
          DictGet(item, "subject").v[k] \notin Whitespace

IsValidBody(body) ==
    /\ body.t = "list"
    /\ \A i \in 1..Len(body.v) : IsValidItem(body.v[i])

Keys(d) == {d.v[k][1] : k \in 1..Len(d.v)}

\* the {error, details} object that stands for an LLM failure
IsErrorResultOf(result, outcome) ==
    /\ result.t = "dict"
    /\ Keys(result) = {"error", "details"}
    /\ DictGet(result, "error").t = "str"
    /\ DictGet(result, "details") = PyStr(outcome.text)

\* result is what one LLM invocation with this outcome yields
IsResultOf(result, outcome) ==
    IF outcome.kind = "content"
    THEN result.t = "str" /\ result.v = outcome.text
    ELSE IsErrorResultOf(result, outcome)

\* C1: for every body that passes validation, the request is answered 200
\* with a list of exactly one result per input item, and the result at
\* position i is the one obtained from the LLM invocation made with the
\* subject of item i, whatever that invocation returned or raised.
C1_OneResultPerItemInOrder ==
    (pc = "responded" /\ IsValidBody(data)) =>
        /\ http.status = 200
        /\ http.body.t = "list"
        /\ Len(http.body.v) = Len(data.v)
        /\ Len(llm_calls) = Len(data.v)
        /\ \A i \in 1..Len(data.v) :
              /\ llm_calls[i].subject = DictGet(data.v[i], "subject")
              /\ IsResultOf(http.body.v[i], llm_calls[i].outcome)

\* a batch of two different subjects, the first failing, the second not
C1_Witness ==
    /\ pc = "responded" /\ IsValidBody(data) /\ http.status = 200
    /\ Len(data.v) >= 2
    /\ DictGet(data.v[1], "subject").v # DictGet(data.v[2], "subject").v
    /\ llm_calls[1].outcome.kind = "raise"
    /\ llm_calls[2].outcome.kind = "content"

\* C2: when the LLM invocation raises for item i, an {error, details}
\* object takes position i and the loop goes on: the LLM is invoked for
\* every later item and all results come back in one 200 response.
C2_FailureDoesNotAbortBatch ==
    \A i \in 1..Len(llm_calls) :
        llm_calls[i].outcome.kind = "raise" =>
            /\ pc \in {"loop", "responded"}
            /\ Len(responses) >= i
            /\ IsErrorResultOf(responses[i], llm_calls[i].outcome)
            /\ pc = "responded" =>
                  /\ http.status = 200
                  /\ Len(llm_calls) = Len(data.v)
                  /\ Len(http.body.v) = Len(data.v)
                  /\ \A j \in i..Len(data.v) :
                        /\ llm_calls[j].subject = DictGet(data.v[j], "subject")
                        /\ IsResultOf(http.body.v[j], llm_calls[j].outcome)

\* a failure in the first of three items, the later two answered
C2_Witness ==
    /\ pc = "responded" /\ http.status = 200
    /\ Len(llm_calls) = 3
    /\ llm_calls[1].outcome.kind = "raise"
    /\ llm_calls[2].outcome.kind = "content"
    /\ llm_calls[3].outcome.kind = "content"
    /\ http.body.v[3].t = "str"

\* the spec's SyllabusResult: {subject: string, syllabus: sequence of
\* string}, or {error, details} with an optional raw_response
IsSyllabusResult(result) ==
    /\ result.t = "dict"
    /\ \/ /\ {"subject", "syllabus"} \subseteq Keys(result)
          /\ DictGet(result, "subject").t = "str"
          /\ DictGet(result, "syllabus").t = "list"
       \/ /\ {"error", "details"} \subseteq Keys(result)
          /\ Keys(result) \subseteq {"error", "details", "raw_response"}

\* C3 (as claimed): every element of the list returned with status 200 is
\* a SyllabusResult, whatever the LLM's output was.
C3_EveryElementIsSyllabusResult ==
    (pc = "responded" /\ http.status = 200) =>
        \A i \in 1..Len(http.body.v) : IsSyllabusResult(http.body.v[i])

\* the message validate_request records for a defective item at index i
ExpectedMessage(item, i) ==
    IF item.t # "dict" THEN ItemMustBeObject(i)
    ELSE IF "subject" \notin Keys(item) THEN MissingSubject(i)
    ELSE IF DictGet(item, "subject").t # "str" THEN SubjectMustBeString(i)
    ELSE SubjectEmpty(i)

\* C4: validate_request records every violation: for a list, exactly one
\* message per defective item, naming the item's index and defect, in
\* index order, none for a valid item, and no message at all exactly when
\* every item is valid; for a body that is no list, exactly one message.
C4_EveryViolationRecorded ==
    (pc # "request" /\ data # GetJsonRaised /\ data # None) =>
        IF data.t # "list" THEN validation_errors = <<MustBeList>>
        ELSE LET bad == {i \in 1..Len(data.v) : ~IsValidItem(data.v[i])}
                 errs == validation_errors
             IN /\ Len(errs) = Cardinality(bad)
                /\ \A k \in 1..Len(errs) :
                      /\ errs[k][2] + 1 \in bad
                      /\ errs[k] = ExpectedMessage(data.v[errs[k][2] + 1], errs[k][2])
                /\ \A k \in 1..Len(errs) : \A m \in 1..Len(errs) :
                      k < m => errs[k][2] < errs[m][2]
                /\ (errs = <<>>) <=> IsValidBody(data)

\* three items, the first and the last defective in different ways
C4_Witness ==
    /\ pc = "responded" /\ data.t = "list" /\ Len(data.v) = 3
    /\ IsValidItem(data.v[2])
    /\ Len(validation_errors) = 2
    /\ validation_errors[1] = ItemMustBeObject(0)
    /\ validation_errors[2] = SubjectEmpty(2)

\* C5 (as claimed): a body that fails validate_request is answered 400
\* with {"errors": [...]} and no LLM invocation.
C5_InvalidBodyAnsweredWithErrors ==
    (pc = "responded" /\ data # GetJsonRaised /\ validate_request(data) # <<>>) =>
        /\ llm_calls = <<>>
        /\ http.status = 400
        /\ Keys(http.body) = {"errors"}

\* C5 (amended): the LLM is invoked only once the whole list is validated
\* as error-free; a body that fails validation is answered 400 with no
\* LLM invocation, the response being {"errors": [...]} with one or more
\* messages, except for the JSON null body, which is rejected before
\* validate_request with {"error": "Invalid JSON in request body"}.
C5_ValidationBeforeAnyLLMCall ==
    /\ (llm_calls # <<>> \/ pc = "loop") => IsValidBody(data)
    /\ (pc = "responded" /\ data # GetJsonRaised /\ ~IsValidBody(data)) =>
          /\ llm_calls = <<>>
          /\ http.status = 400
          /\ IF data = None
             THEN /\ Keys(http.body) = {"error"}
                  /\ DictGet(http.body, "error") = PyStr(<<"Invalid JSON in request body">>)
             ELSE /\ Keys(http.body) = {"errors"}
                  /\ DictGet(http.body, "errors").t = "list"
                  /\ DictGet(http.body, "errors").v # <<>>

\* a list whose first items are valid and whose last one is not
C5_Witness ==
    /\ pc = "responded" /\ data.t = "list" /\ Len(data.v) = 3
    /\ IsValidItem(data.v[1]) /\ IsValidItem(data.v[2]) /\ ~IsValidItem(data.v[3])
    /\ http.status = 400 /\ llm_calls = <<>>

----------------------------------------------------------------------------
(* Properties of clean_response (specification SpecClean) *)

\* C6 (as claimed): clean_response never raises past its boundary: for
\* every text it returns an object, and when no JSON object was extracted
\* and parsed the object is a failure that holds an error text and the
\* original raw text unchanged.  (The error code and the human-readable
\* message are read here as the 'error' text, 'details' adding the
\* parser's message when there is one.)
C6_NeverRaisesPastBoundary ==
    cpc = "done" =>
        /\ cleaned.kind = "return"
        /\ cleaned.from = "json.loads" => cleaned.val.t = "obj"
        /\ cleaned.from # "json.loads" =>
              /\ "error" \in DOMAIN cleaned.val
              /\ "raw_response" \in DOMAIN cleaned.val
              /\ cleaned.val.raw_response = response

\* the text with its backslashes removed and its newlines made spaces
Flattened(text) ==
    LET kept == SelectSeq(text, LAMBDA c : c # BACKSLASH)
    IN [k \in 1..Len(kept) |-> IF kept[k] = NEWLINE THEN SPACE ELSE kept[k]]

\* s is text[a..b], a brace-delimited stretch with no "}" inside, and no
\* such stretch starts before a
IsFirstMinimalBraces(s, text) ==
    \E a \in 1..Len(text) : \E b \in (a + 1)..Len(text) :
        /\ text[a] = "{" /\ text[b] = "}"
        /\ \A m \in a..(b - 1) : text[m] # "}"
        /\ \A m \in 1..(a - 1) :
              text[m] = "{" => \A n \in (m + 1)..Len(text) : text[n] # "}"
        /\ s = SubSeq(text, a, b)

HasBraces(text) ==
    \E a \in 1..Len(text) : \E b \in (a + 1)..Len(text) :
        text[a] = "{" /\ text[b] = "}"

\* s is what lies in text after its first start marker, up to the next
\* marker of either kind or the end of the text
IsAfterFirstStart(s, text) ==
    \E a \in 1..Len(text) : \E b \in (a + 1)..(Len(text) + 1) :
        /\ text[a] = START
        /\ \A m \in 1..(a - 1) : text[m] # START
        /\ \A m \in (a + 1)..(b - 1) : text[m] \notin {START, END}
        /\ b <= Len(text) => text[b] \in {START, END}
        /\ s = Slice(text, a + 1, b - 1)

\* s without the whitespace around it
IsTrimmed(s, t) ==
    /\ s # <<>> => s[1] \notin Whitespace /\ s[Len(s)] \notin Whitespace
    /\ \E a \in 0..Len(t) : \E b \in 0..Len(t) :
          /\ a + Len(s) + b = Len(t)
          /\ \A m \in 1..a : t[m] \in Whitespace
          /\ \A m \in (Len(t) - b + 1)..Len(t) : t[m] \in Whitespace
          /\ \A m \in 1..Len(s) : s[m] = t[a + m]

\* json_str is t trimmed, in braces unless it begins with one
IsWrapped(s, t) ==
    \/ s # <<>> /\ s[1] = "{" /\ IsTrimmed(s, t)
    \/ /\ Len(s) >= 2 /\ s[1] = "{" /\ s[Len(s)] = "}"
       /\ IsTrimmed(Slice(s, 2, Len(s) - 1), t)
       /\ (Len(s) > 2 => s[2] # "{")

\* C10 (as claimed): the sentinel path is taken exactly when the text
\* holds the pair of markers; with no marker or only one of the two the
\* fallback path is taken.
C10_SentinelPathOnMarkerPair ==
    cpc = "done" =>
        (path = "sentinel" <=> (Contains(response, START) /\ Contains(response, END)))

\* C10 (amended): the sentinel path is taken exactly when the text holds
\* the start marker, with or without an end marker: json_str is then the
\* text after the first start marker up to the next marker or the end,
\* trimmed, and wrapped in braces unless it begins with one.  Every text
\* without a start marker takes the fallback path: newlines become spaces,
\* backslashes are removed, and json_str is the first minimal
\* brace-delimited stretch of the result, if there is one; if there is
\* none the call returns the no-JSON failure object.
C10_SentinelPathOnStartMarker ==
    cpc = "done" =>
        /\ path = (IF Contains(response, START) THEN "sentinel" ELSE "fallback")
        /\ path = "sentinel" =>
              \E inner \in {Slice(response, a, b) :
                              a \in 1..(Len(response) + 1), b \in 0..Len(response)} :
                  /\ IsAfterFirstStart(inner, response)
                  /\ IsWrapped(json_str, inner)
        /\ path = "fallback" =>
              IF HasBraces(Flattened(response))
              THEN IsFirstMinimalBraces(json_str, Flattened(response))
              ELSE /\ json_str = <<>>
                   /\ cleaned = Returned("no match", NoJsonFound(response))

\* a text with a start marker and no end marker, whose content parses
\* only once it is wrapped
C10_Witness ==
    /\ cpc = "done" /\ path = "sentinel"
    /\ Contains(response, START) /\ ~Contains(response, END)
    /\ ~HasBraces(response)
    /\ cleaned.kind = "return" /\ cleaned.from = "json.loads"
    /\ cleaned.val.v # <<>>

----------------------------------------------------------------------------
(* Properties of the chat session (specification SpecChat) *)

\* C7 (as claimed): after any sequence of uploads, once a run has gone
\* through without error the agent's retrieval tool is the one built from
\* the currently uploaded document, and a question asked in that run
\* retrieves chunks of that document only.
C7_AgentHoldsCurrentDocument ==
    (run_pc = "idle" /\ uploaded_pdf # None /\ ~run_error) =>
        /\ agent_executor # None
        /\ Len(agent_executor.tools) = 1
        /\ agent_executor.tools[1].index = Chunks(uploaded_pdf.document)
        /\ turn # None => turn.retrieved \subseteq Chunks(uploaded_pdf.document)

\* C8: generate_response never propagates a failure: when the agent
\* invocation fails (it raises, or its result has no 'output'), the answer
\* is the fixed apology, and the turn appends exactly one user message
\* followed by exactly one assistant message to the history.
C8_ApologyOnFailure ==
    turn # None =>
        /\ ~run_error
        /\ Len(messages) = turn.before + 2
        /\ messages[turn.before + 1] = [role |-> "user", content |-> turn.prompt]
        /\ messages[turn.before + 2].role = "assistant"
        /\ turn.invocation.kind = "output" =>
              messages[turn.before + 2].content = turn.invocation.text
        /\ turn.invocation.kind # "output" =>
              /\ messages[turn.before + 2].content = Apology
              /\ messages[turn.before + 2].content # turn.invocation.text

\* a second turn whose invocation raised
C8_Witness ==
    /\ turn # None /\ turn.before = 2
    /\ turn.invocation.kind = "raise"
    /\ messages[4] = [role |-> "assistant", content |-> Apology]

\* the messages that were in the history when the last run rendered it
Rendered == IF turn = None THEN messages ELSE SubSeq(messages, 1, turn.before)

\* at most DisplayCount messages are displayed, the last ones, in order
DisplayedAreTheLast ==
    /\ Len(displayed) = (IF Len(Rendered) > DisplayCount THEN DisplayCount
                         ELSE Len(Rendered))
    /\ \A k \in 1..Len(displayed) :
          displayed[k] = Rendered[Len(Rendered) - Len(displayed) + k]

\* C9 (as claimed): at most 5 messages are displayed, the last 5 in append
\* order, and the history kept in session state holds no more than the
\* most recent 5.
C9_AtMostFiveRetained ==
    /\ DisplayedAreTheLast
    /\ Len(messages) <= DisplayCount

\* C9 (amended): at most 5 messages are displayed, the last 5 in append
\* order; the history kept in session state is append-only and is never
\* truncated, so it holds every message of the session.
C9_LastFiveDisplayedAllRetained ==
    [][/\ DisplayedAreTheLast'
       /\ Len(messages') >= Len(messages)
       /\ SubSeq(messages', 1, Len(messages)) = messages]_vars

\* a run that renders a history of more than 5 messages
C9_Witness ==
    /\ Len(messages) > DisplayCount
    /\ turn = None
    /\ Len(displayed) = DisplayCount
    /\ displayed[1] = messages[Len(messages) - DisplayCount + 1]
    /\ displayed[1] # messages[1]

============================================================================
